---- MODULE Spec2Model ----
(***************************************************************************)
(* Custom Profit and Loss Statement report                                 *)
(* (socha_llc/report/custom_profit_and_loss_statement).                    *)
(*                                                                         *)
(* Strings are sequences of symbols: a symbol is a word, "_" or " ".  The  *)
(* fieldname jun_2024 is <<"jun", "_", "2024">>, the label "Jun 2024" is   *)
(* <<"Jun", " ", "2024">>.  str.split, the `in` test and f-strings are     *)
(* subsequence search and concatenation over these symbols.                *)
(*                                                                         *)
(* Numbers are integers counting thousandths (Unit = 1000 stands for 1.0); *)
(* rounding to n decimals is exact round-half-to-even on them.             *)
(*                                                                         *)
(* A dict is a function from keys to values; a value is a record           *)
(* [t |-> type tag, v |-> payload].                                        *)
(***************************************************************************)
EXTENDS Integers, Sequences, FiniteSets, TLC

VARIABLES
    pc,                 \* position in execute / in the direct call
    filters,            \* the filters dict of execute
    period_list,        \* result of get_period_list
    asset, liability, equity, income, expense,   \* results of get_data
    float_precision,    \* the float_precision system default (0: not set)
    message, opening_balance,                    \* result of check_opening_balance
    data, columns, chart,
    report_summary, primitive_summary,
    result,             \* the tuple execute returns
    old_value, new_value, percentage   \* a call of calculate_percentage_difference

vars == << pc, filters, period_list, asset, liability, equity, income, expense,
           float_precision, message, opening_balance, data, columns, chart, report_summary,
           primitive_summary, result, old_value, new_value, percentage >>

---------------------------------------------------------------------------
(* Bounds *)

MaxPeriods == 3
MaxAmount == 12

(* 1.0 in the integer representation of numbers *)
Unit == 1000

---------------------------------------------------------------------------
(* Values *)

Num(n) == [t |-> "num", v |-> n]
NoneV == [t |-> "none", v |-> 0]
EmptyStr == [t |-> "str", v |-> 0]      \* ""
Text(i) == [t |-> "text", v |-> i]      \* a non-empty string that is no number
ListV == [t |-> "list", v |-> 1]        \* a non-empty list
TrueV == [t |-> "bool", v |-> 1]

EmptyRow == [k \in {} |-> NoneV]

\* dict.get(key, default)
Get(row, key, default) == IF key \in DOMAIN row THEN row[key] ELSE default

\* dict[key] = value
SetKey(row, key, value) ==
    [k \in DOMAIN row \cup {key} |-> IF k = key THEN value ELSE row[k]]

\* Python truth value
Truthy(val) ==
    CASE val.t = "num" -> val.v # 0
      [] val.t = "bool" -> val.v # 0
      [] val.t = "none" -> FALSE
      [] val.t = "str" -> FALSE
      [] OTHER -> TRUE

\* float(x): the number, or the exception raised
ToFloat(val) ==
    CASE val.t = "num" -> [ok |-> TRUE, v |-> val.v, exc |-> ""]
      [] val.t = "bool" -> [ok |-> TRUE, v |-> val.v * Unit, exc |-> ""]
      [] val.t = "text" -> [ok |-> FALSE, v |-> 0, exc |-> "ValueError"]
      [] val.t = "str" -> [ok |-> FALSE, v |-> 0, exc |-> "ValueError"]
      [] OTHER -> [ok |-> FALSE, v |-> 0, exc |-> "TypeError"]

---------------------------------------------------------------------------
(* Strings *)

US == <<"_">>
SP == <<" ">>
AND_SEP == <<"_", "and", "_">>
DIFF_WITH == <<"diff", "_", "with", "_">>
PERCENT_WITH == <<"percent", "_", "with", "_">>

\* least index >= i at which sep occurs in s, 0 if none
RECURSIVE Find(_, _, _)
Find(s, sep, i) ==
    IF i + Len(sep) - 1 > Len(s) THEN 0
    ELSE IF SubSeq(s, i, i + Len(sep) - 1) = sep THEN i
    ELSE Find(s, sep, i + 1)

\* sep in s
Contains(s, sep) == Find(s, sep, 1) # 0

\* s.split(sep)
RECURSIVE Split(_, _)
Split(s, sep) ==
    LET j == Find(s, sep, 1)
    IN  IF j = 0 THEN <<s>>
        ELSE <<SubSeq(s, 1, j - 1)>> \o Split(SubSeq(s, j + Len(sep), Len(s)), sep)

\* decimal numerals that occur as year words
IntOf == ("2022" :> 2022) @@ ("2023" :> 2023) @@ ("2024" :> 2024) @@
         ("2025" :> 2025) @@ ("2026" :> 2026) @@ ("2027" :> 2027) @@
         ("2028" :> 2028) @@ ("2029" :> 2029) @@ ("2030" :> 2030)

\* int(s) succeeds
IsInt(s) == Len(s) = 1 /\ s[1] \in DOMAIN IntOf

\* str(n) of an integer
StrOf(n) == CHOOSE w \in DOMAIN IntOf : IntOf[w] = n

---------------------------------------------------------------------------
(* Rounding *)

Abs(x) == IF x < 0 THEN -x ELSE x

RECURSIVE Pow10(_)
Pow10(n) == IF n = 0 THEN 1 ELSE 10 * Pow10(n - 1)

\* n / d rounded to the nearest integer, ties to even
RoundDiv(n, d) ==
    LET nn == IF d < 0 THEN -n ELSE n
        dd == Abs(d)
        q == nn \div dd
        r == nn - q * dd
    IN  IF 2 * r < dd THEN q
        ELSE IF 2 * r > dd THEN q + 1
        ELSE IF q % 2 = 0 THEN q ELSE q + 1

\* round(num / den, ndigits), in thousandths
RoundTo(num, den, ndigits) ==
    RoundDiv(num * Pow10(ndigits), den) * (Unit \div Pow10(ndigits))

\* mutant: the ratio is taken over the new value
CalculatePercentageDifferenceOverNew(old, new) ==
    IF old = 0
    THEN IF new = 0 THEN Num(0) ELSE Num(100 * Unit)
    ELSE IF new = 0 THEN NoneV ELSE Num(RoundTo((new - old) * 100, new, 2))

\* calculate_percentage_difference(old_value, new_value)
calculate_percentage_difference(old, new) ==
    IF old = 0
    THEN IF new = 0 THEN Num(0) ELSE Num(100 * Unit)
    ELSE Num(RoundTo((new - old) * 100, old, 2))

---------------------------------------------------------------------------
(* Columns *)

Column(fieldname, label, fieldtype, options, width) ==
    [fieldname |-> fieldname, label |-> label, fieldtype |-> fieldtype,
     options |-> options, width |-> width]

\* the two columns the Monthly branch appends for `row` after `old`
MonthlyColumns(old, row) ==
    << Column(DIFF_WITH \o old.fieldname \o AND_SEP \o row.fieldname,
              <<"Diff", " ", "W/">> \o old.label, "Currency", "currency", 150),
       Column(PERCENT_WITH \o old.fieldname \o AND_SEP \o row.fieldname,
              <<"Percent", " ", "Diff", " ", "W/">> \o old.label, "Percent", "", 150) >>

\* the two columns the Yearly branch appends for `row`; month and month_name
\* are the pieces of row's fieldname and label
YearlyColumns(row, month, month_name) ==
    LET m == month[1] \o US \o <<StrOf(IntOf[month[2][1]] - 1)>>
        mn == month_name[1] \o SP \o <<StrOf(IntOf[month_name[2][1]] - 1)>>
    IN  << Column(DIFF_WITH \o m \o AND_SEP \o row.fieldname,
                  <<"Diff", " ", "W/">> \o mn, "Currency", "currency", 150),
           Column(<<"percent", "_">> \o DIFF_WITH \o mn \o AND_SEP \o row.fieldname,
                  <<"Percent", " ", "Diff", " ", "W/">> \o mn, "Percent", "", 150) >>

\* one iteration of the loop of get_difference_columns; acc holds flag,
\* old_value, columns_new and the exception raised so far ("" if none)
DifferenceColumnsStep(acc, row, show_difference) ==
    LET out1 == Append(acc.out, row)
        hit == acc.flag /\ row.fieldtype = "Currency"
        out2 == IF hit /\ show_difference = "Monthly"
                THEN out1 \o MonthlyColumns(acc.old, row) ELSE out1
        yearly == hit /\ show_difference = "Yearly"
        month == Split(row.fieldname, US)
        month_name == Split(row.label, SP)
        skip == yearly /\ Len(month) < 2
        exc == IF ~yearly \/ skip THEN ""
               ELSE IF ~IsInt(month[2]) THEN "ValueError"
               ELSE IF Len(month_name) < 2 THEN "IndexError"
               ELSE IF ~IsInt(month_name[2]) THEN "ValueError"
               ELSE ""
    IN  IF acc.exc # "" THEN acc
        ELSE IF exc # "" THEN [acc EXCEPT !.exc = exc]
        ELSE IF skip THEN [acc EXCEPT !.out = out2]
        ELSE [flag |-> acc.flag \/ row.fieldtype = "Currency",
              old |-> row,
              out |-> IF yearly THEN out2 \o YearlyColumns(row, month, month_name)
                      ELSE out2,
              exc |-> ""]

RECURSIVE DifferenceColumnsLoop(_, _, _, _)
DifferenceColumnsLoop(acc, cols, i, show_difference) ==
    IF i > Len(cols) THEN acc
    ELSE DifferenceColumnsLoop(DifferenceColumnsStep(acc, cols[i], show_difference),
                               cols, i + 1, show_difference)

\* mutant: the flag is set before the first Currency column is looked at
GetDifferenceColumnsFlagEarly(cols, show_difference) ==
    DifferenceColumnsLoop([flag |-> TRUE, old |-> cols[1], out |-> <<>>, exc |-> ""],
                          cols, 1, show_difference)

\* get_difference_columns(columns, filters): [out |-> columns_new, exc |-> ""]
\* on return, exc # "" when an exception leaves the function
get_difference_columns(cols, show_difference) ==
    DifferenceColumnsLoop([flag |-> FALSE, old |-> Column(<<>>, <<>>, "", "", 0),
                           out |-> <<>>, exc |-> ""],
                          cols, 1, show_difference)

---------------------------------------------------------------------------
(* Difference data *)

\* the fieldnames get_difference_data files under diff_w_columns
DiffWColumns(cols) ==
    SelectSeq(cols, LAMBDA c : c.fieldname # <<>> /\ Contains(c.fieldname, DIFF_WITH))

\* the fieldnames get_difference_data files under percent_diff_columns
PercentDiffColumns(cols) ==
    SelectSeq(cols, LAMBDA c : c.fieldname # <<>> /\ ~Contains(c.fieldname, DIFF_WITH)
                               /\ Contains(c.fieldname, PERCENT_WITH))

\* the body of the try block: months, old_value, new_value.  exc is the
\* exception the block raises ("" if none)
Operands(row, col, prefix) ==
    LET months == Split(Split(col, prefix)[2], AND_SEP)
        zero == Num(0)
        o == IF Len(months) >= 1 THEN Get(row, months[1], zero) ELSE zero
        old == ToFloat(IF Truthy(o) THEN o ELSE zero)
        n == IF Len(months) >= 2 THEN Get(row, months[2], zero) ELSE zero
        new == ToFloat(IF Truthy(n) THEN n ELSE zero)
    IN  IF ~old.ok THEN [exc |-> old.exc, old |-> 0, new |-> 0]
        ELSE IF Len(months) < 2 THEN [exc |-> "IndexError", old |-> 0, new |-> 0]
        ELSE IF ~new.ok THEN [exc |-> new.exc, old |-> 0, new |-> 0]
        ELSE [exc |-> "", old |-> old.v, new |-> new.v]

\* mutant: the handlers do not catch IndexError
CaughtWithoutIndexError == {"ValueError", "TypeError"}

\* except (IndexError, ValueError, TypeError)
Caught == {"IndexError", "ValueError", "TypeError"}

\* mutant: the difference is taken the other way round
DiffCellReversed(row, col) ==
    LET x == Operands(row, col, DIFF_WITH)
    IN  IF x.exc # "" THEN NoneV ELSE Num(x.old - x.new)

\* the value the first loop stores in row[col]
DiffCell(row, col) ==
    LET x == Operands(row, col, DIFF_WITH)
    IN  IF x.exc # "" THEN NoneV ELSE Num(x.new - x.old)

\* the value the second loop stores in row[col]
PercentCell(row, col) ==
    LET x == Operands(row, col, PERCENT_WITH)
    IN  IF x.exc # "" THEN NoneV ELSE calculate_percentage_difference(x.old, x.new)

\* an exception of a try block that its handler does not catch
Escapes(cols, rows) ==
    \E r \in 1..Len(rows) :
        \/ \E j \in 1..Len(DiffWColumns(cols)) :
              Operands(rows[r], DiffWColumns(cols)[j].fieldname, DIFF_WITH).exc
                  \notin Caught \cup {""}
        \/ \E j \in 1..Len(PercentDiffColumns(cols)) :
              Operands(rows[r], PercentDiffColumns(cols)[j].fieldname, PERCENT_WITH).exc
                  \notin Caught \cup {""}

\* for col in diff_w_columns, on one row
RECURSIVE FillDiff(_, _, _)
FillDiff(row, cols, i) ==
    IF i > Len(cols) THEN row
    ELSE FillDiff(SetKey(row, cols[i].fieldname, DiffCell(row, cols[i].fieldname)),
                  cols, i + 1)

\* for col in percent_diff_columns, on one row
RECURSIVE FillPercent(_, _, _)
FillPercent(row, cols, i) ==
    IF i > Len(cols) THEN row
    ELSE FillPercent(SetKey(row, cols[i].fieldname, PercentCell(row, cols[i].fieldname)),
                     cols, i + 1)

\* get_difference_data(columns, data): the rows after both loops
get_difference_data(cols, rows) ==
    LET diffs == DiffWColumns(cols)
        percents == PercentDiffColumns(cols)
    IN  [r \in 1..Len(rows) |->
            FillPercent(FillDiff(rows[r], diffs, 1), percents, 1)]

---------------------------------------------------------------------------
(* The framework's collaborators: get_period_list, get_columns, get_data.  *)
(* They are not part of the report; what they return is drawn from the     *)
(* shapes below.                                                           *)

FirstYear == 2024

\* the i-th period of a period list
Period(periodicity, i) ==
    IF periodicity = "Yearly"
    THEN LET y == StrOf(FirstYear + i - 1)
         IN  [key |-> <<"dec", "_", y>>, label |-> <<y>>,
              year_start_date |-> <<y, "-", "01", "-", "01">>]
    ELSE LET y == StrOf(FirstYear + (i - 1) \div 2)
         IN  [key |-> <<(IF i % 2 = 1 THEN "jun" ELSE "dec"), "_", y>>,
              label |-> <<(IF i % 2 = 1 THEN "Jun" ELSE "Dec"), " ", y>>,
              year_start_date |-> <<y, "-", "01", "-", "01">>]

\* get_period_list(...): n periods of the given periodicity
PeriodList(periodicity, n) == [i \in 1..n |-> Period(periodicity, i)]

\* get_columns(periodicity, period_list, accumulated_values, company)
get_columns(periodicity, periods, accumulated_values) ==
    << Column(<<"account">>, <<"Account">>, "Link", "Account", 300),
       Column(<<"currency">>, <<"Currency">>, "Link", "Currency", 0) >>
    \o [i \in 1..Len(periods) |->
            Column(periods[i].key, periods[i].label, "Currency", "currency", 150)]
    \o (IF periodicity # "Yearly" /\ ~accumulated_values
        THEN <<Column(<<"total">>, <<"Total">>, "Currency", "currency", 150)>>
        ELSE <<>>)

\* the balance of root c in period i, and the opening balance of root c
Amount(c, i) == ((c + i * i) % 3) * (c * 100 + i) * 10
OpeningSample == <<1004, 1000, 4, 1000, 5>>

RECURSIVE SumAmounts(_, _)
SumAmounts(c, n) == IF n = 0 THEN 0 ELSE Amount(c, n) + SumAmounts(c, n - 1)

AccountRow(c, periods) ==
    [k \in {periods[i].key : i \in 1..Len(periods)}
           \cup {<<"account", "_", "name">>, <<"total">>, <<"opening", "_", "balance">>} |->
        IF k = <<"account", "_", "name">> THEN Text(c)
        ELSE IF k = <<"total">> THEN EmptyStr
        ELSE IF k = <<"opening", "_", "balance">> THEN Num(OpeningSample[c])
        ELSE Num(Amount(c, CHOOSE i \in 1..Len(periods) : periods[i].key = k))]

TotalRow(c, periods) ==
    [k \in {periods[i].key : i \in 1..Len(periods)}
           \cup {<<"account", "_", "name">>, <<"total">>, <<"opening", "_", "balance">>} |->
        IF k = <<"account", "_", "name">> THEN Text(c + 10)
        ELSE IF k = <<"total">> THEN Num(SumAmounts(c, Len(periods)))
        ELSE IF k = <<"opening", "_", "balance">> THEN Num(OpeningSample[c])
        ELSE Num(Amount(c, CHOOSE i \in 1..Len(periods) : periods[i].key = k))]

\* what get_data may return for root c: nothing, the account rows followed
\* by the total row and the empty separator row, or the rows without the
\* separator
DataShapes(c, periods) ==
    { <<>>,
      <<AccountRow(c, periods), TotalRow(c, periods), EmptyRow>>,
      <<AccountRow(c, periods), TotalRow(c, periods)>> }

\* values of the float_precision system default (0: not set)
FloatPrecisions == {0, 3}

Currency == "USD"

---------------------------------------------------------------------------
(* check_opening_balance, get_report_summary, get_chart_data *)

\* list[-1], list[-2]
Last(rows) == rows[Len(rows)]
SecondLast(rows) == rows[Len(rows) - 1]

\* flt(value, precision)
flt(val, precision) ==
    IF val.t = "num" THEN RoundTo(val.v, Unit, precision) ELSE 0

\* flt(rows[-1].get("opening_balance", 0), float_precision), 0 when rows is empty
LastOpening(rows, precision) ==
    IF rows = <<>> THEN 0
    ELSE flt(Get(Last(rows), <<"opening", "_", "balance">>, Num(0)), precision)

\* mutant: equity is added instead of subtracted
CheckOpeningBalanceAddsEquity(a, l, e, i, x, db_precision) ==
    LET p == IF db_precision # 0 THEN db_precision ELSE 2
        ob == RoundTo(LastOpening(a, p) - LastOpening(l, p) + LastOpening(e, p)
                      - LastOpening(i, p) - LastOpening(x, p), Unit, p)
    IN  IF ob # 0 THEN [message |-> Text(0), opening_balance |-> Num(ob)]
        ELSE [message |-> NoneV, opening_balance |-> NoneV]

\* check_opening_balance(asset, liability, equity, income, expense)
check_opening_balance(a, l, e, i, x, db_precision) ==
    LET p == IF db_precision # 0 THEN db_precision ELSE 2
        ob == RoundTo(LastOpening(a, p) - LastOpening(l, p) - LastOpening(e, p)
                      - LastOpening(i, p) - LastOpening(x, p), Unit, p)
    IN  IF ob # 0 THEN [message |-> Text(0), opening_balance |-> Num(ob)]
        ELSE [message |-> NoneV, opening_balance |-> NoneV]

\* the unclosed row of execute
UnclosedRow(periods, ob) ==
    [k \in {periods[i].key : i \in 1..Len(periods)}
           \cup {<<"account", "_", "name">>, <<"account">>, <<"warn", "_", "if", "_", "negative">>,
                 <<"currency">>, <<"total">>} |->
        IF k \in {<<"account", "_", "name">>, <<"account">>} THEN Text(99)
        ELSE IF k = <<"warn", "_", "if", "_", "negative">> THEN TrueV
        ELSE IF k = <<"currency">> THEN Text(98)
        ELSE ob]

\* sum of rows[-2].get(period.key) over the periods
RECURSIVE NetOf(_, _, _)
NetOf(rows, periods, i) ==
    IF i > Len(periods) THEN 0
    ELSE Get(SecondLast(rows), periods[i].key, NoneV).v + NetOf(rows, periods, i + 1)

SummaryEntry(value, label) ==
    [value |-> value, label |-> label, datatype |-> "Currency", currency |-> Currency]

\* mutant: accumulated_values is ignored
GetReportSummaryAllPeriods(periods, a, l, e, i, x, accumulated_values) ==
    LET net(rows, need_sep) ==
            IF rows # <<>> /\ (~need_sep \/ Last(rows) = EmptyRow)
            THEN NetOf(rows, periods, 1) ELSE 0
    IN  [summary |-> << SummaryEntry(net(a, FALSE), "Total Asset"),
                        SummaryEntry(net(l, TRUE), "Total Liability"),
                        SummaryEntry(net(e, TRUE), "Total Equity"),
                        SummaryEntry(net(i, TRUE), "Total Income"),
                        SummaryEntry(net(x, TRUE), "Total Expense") >>,
         primitive |-> net(a, FALSE) - net(l, TRUE) + net(e, TRUE)]

\* get_report_summary(period_list, asset, liability, equity, income, expense,
\* {}, currency, filters)
get_report_summary(periods, a, l, e, i, x, accumulated_values) ==
    LET ps == IF accumulated_values THEN <<Last(periods)>> ELSE periods
        net(rows, need_sep) ==
            IF rows # <<>> /\ (~need_sep \/ Last(rows) = EmptyRow)
            THEN NetOf(rows, ps, 1) ELSE 0
    IN  [summary |-> << SummaryEntry(net(a, FALSE), "Total Asset"),
                        SummaryEntry(net(l, TRUE), "Total Liability"),
                        SummaryEntry(net(e, TRUE), "Total Equity"),
                        SummaryEntry(net(i, TRUE), "Total Income"),
                        SummaryEntry(net(x, TRUE), "Total Expense") >>,
         primitive |-> net(a, FALSE) - net(l, TRUE) + net(e, TRUE)]

\* columns[2:]
Tail2(cols) == SubSeq(cols, 3, Len(cols))

\* mutant: the values are read from the last row
ChartValuesLastRow(rows, cols) ==
    IF rows = <<>> THEN <<>>
    ELSE [j \in 1..Len(Tail2(cols)) |->
            Get(Last(rows), Tail2(cols)[j].fieldname, NoneV)]

\* the values list get_chart_data collects for one root
ChartValues(rows, cols) ==
    IF rows = <<>> THEN <<>>
    ELSE [j \in 1..Len(Tail2(cols)) |->
            Get(SecondLast(rows), Tail2(cols)[j].fieldname, NoneV)]

ChartNames == <<"Assets", "Liabilities", "Equity", "Income", "Expense">>

RECURSIVE Datasets(_, _)
Datasets(values, c) ==
    IF c > Len(values) THEN <<>>
    ELSE (IF values[c] # <<>>
          THEN <<[name |-> ChartNames[c], values |-> values[c]]>> ELSE <<>>)
         \o Datasets(values, c + 1)

\* get_chart_data(filters, columns, asset, liability, equity, income, expense, currency)
get_chart_data(accumulated_values, cols, a, l, e, i, x) ==
    [labels |-> [j \in 1..Len(Tail2(cols)) |-> Tail2(cols)[j].label],
     datasets |-> Datasets(<< ChartValues(a, cols), ChartValues(l, cols),
                              ChartValues(e, cols), ChartValues(i, cols),
                              ChartValues(x, cols) >>, 1),
     type |-> IF ~accumulated_values THEN "bar" ELSE "line",
     fieldtype |-> "Currency", options |-> "currency", currency |-> Currency]

---------------------------------------------------------------------------
(* execute(filters) *)

NoChart == [labels |-> <<>>, datasets |-> <<>>, type |-> "", fieldtype |-> "",
            options |-> "", currency |-> ""]

FilterSets ==
    [show_difference : {"", "Monthly", "Yearly"},
     accumulated_values : BOOLEAN,
     periodicity : {"Half-Yearly", "Yearly"},
     period_start_date : {<<>>}]

Init ==
    /\ pc = "get_period_list"
    /\ filters \in FilterSets
    /\ period_list = <<>>
    /\ asset = <<>> /\ liability = <<>> /\ equity = <<>>
    /\ income = <<>> /\ expense = <<>>
    /\ float_precision = 0
    /\ message = NoneV /\ opening_balance = NoneV
    /\ data = <<>> /\ columns = <<>> /\ chart = NoChart
    /\ report_summary = <<>> /\ primitive_summary = 0
    /\ result = <<>>
    /\ old_value = 0 /\ new_value = 0 /\ percentage = NoneV

calc_vars == << old_value, new_value, percentage >>
data_vars == << asset, liability, equity, income, expense >>
out_vars == << data, columns, chart, report_summary, primitive_summary, result >>

\* lines 17-27
GetPeriodList ==
    /\ pc = "get_period_list"
    /\ \E n \in 1..MaxPeriods :
          /\ period_list' = PeriodList(filters.periodicity, n)
          /\ filters' = [filters EXCEPT
                !.period_start_date = PeriodList(filters.periodicity, n)[1].year_start_date]
    /\ pc' = "get_data_asset"
    /\ UNCHANGED << data_vars, float_precision, message, opening_balance, out_vars, calc_vars >>

\* lines 33-41
GetDataAsset ==
    /\ pc = "get_data_asset"
    /\ asset' \in DataShapes(1, period_list)
    /\ pc' = "get_data_liability"
    /\ UNCHANGED << filters, period_list, liability, equity, income, expense,
                    float_precision, message, opening_balance, out_vars, calc_vars >>

\* lines 43-51
GetDataLiability ==
    /\ pc = "get_data_liability"
    /\ liability' \in DataShapes(2, period_list)
    /\ pc' = "get_data_equity"
    /\ UNCHANGED << filters, period_list, asset, equity, income, expense,
                    float_precision, message, opening_balance, out_vars, calc_vars >>

\* lines 53-61
GetDataEquity ==
    /\ pc = "get_data_equity"
    /\ equity' \in DataShapes(3, period_list)
    /\ pc' = "get_data_income"
    /\ UNCHANGED << filters, period_list, asset, liability, income, expense,
                    float_precision, message, opening_balance, out_vars, calc_vars >>

\* lines 62-71
GetDataIncome ==
    /\ pc = "get_data_income"
    /\ income' \in DataShapes(4, period_list)
    /\ pc' = "get_data_expense"
    /\ UNCHANGED << filters, period_list, asset, liability, equity, expense,
                    float_precision, message, opening_balance, out_vars, calc_vars >>

\* lines 73-82
GetDataExpense ==
    /\ pc = "get_data_expense"
    /\ expense' \in DataShapes(5, period_list)
    /\ pc' = "check_opening_balance"
    /\ UNCHANGED << filters, period_list, asset, liability, equity, income,
                    float_precision, message, opening_balance, out_vars, calc_vars >>

\* line 84
CheckOpeningBalance ==
    /\ pc = "check_opening_balance"
    /\ \E p \in FloatPrecisions :
          /\ float_precision' = p
          /\ message' = check_opening_balance(asset, liability, equity, income,
                                              expense, p).message
          /\ opening_balance' = check_opening_balance(asset, liability, equity, income,
                                                      expense, p).opening_balance
    /\ pc' = "build_data"
    /\ UNCHANGED << filters, period_list, data_vars, out_vars, calc_vars >>

\* opening_balance and round(opening_balance, 2) != 0
AppendsUnclosed(ob) == ob.t = "num" /\ ob.v # 0 /\ RoundTo(ob.v, Unit, 2) # 0

\* lines 86-103
BuildData ==
    /\ pc = "build_data"
    /\ data' = asset \o liability \o equity \o income \o expense
               \o (IF AppendsUnclosed(opening_balance)
                   THEN <<UnclosedRow(period_list, opening_balance)>> ELSE <<>>)
    /\ pc' = "get_columns"
    /\ UNCHANGED << filters, period_list, data_vars, float_precision, message,
                    opening_balance, columns, chart, report_summary,
                    primitive_summary, result, calc_vars >>

\* lines 105-107
GetColumns ==
    /\ pc = "get_columns"
    /\ columns' = get_columns(filters.periodicity, period_list, filters.accumulated_values)
    /\ pc' = "get_difference_columns"
    /\ UNCHANGED << filters, period_list, data_vars, float_precision, message,
                    opening_balance, data, chart, report_summary,
                    primitive_summary, result, calc_vars >>

\* line 109; an exception of get_difference_columns leaves execute
GetDifferenceColumns ==
    /\ pc = "get_difference_columns"
    /\ LET r == get_difference_columns(columns, filters.show_difference)
       IN  IF r.exc # ""
           THEN pc' = "raised" /\ UNCHANGED columns
           ELSE pc' = "get_chart_data" /\ columns' = r.out
    /\ UNCHANGED << filters, period_list, data_vars, float_precision, message,
                    opening_balance, data, chart, report_summary,
                    primitive_summary, result, calc_vars >>

\* line 111
GetChartData ==
    /\ pc = "get_chart_data"
    /\ chart' = get_chart_data(filters.accumulated_values, columns, asset, liability,
                               equity, income, expense)
    /\ pc' = "get_report_summary"
    /\ UNCHANGED << filters, period_list, data_vars, float_precision, message,
                    opening_balance, data, columns, report_summary,
                    primitive_summary, result, calc_vars >>

\* lines 113-115
GetReportSummary ==
    /\ pc = "get_report_summary"
    /\ LET r == get_report_summary(period_list, asset, liability, equity, income,
                                   expense, filters.accumulated_values)
       IN  report_summary' = r.summary /\ primitive_summary' = r.primitive
    /\ pc' = "get_difference_data"
    /\ UNCHANGED << filters, period_list, data_vars, float_precision, message,
                    opening_balance, data, columns, chart, result, calc_vars >>

\* rows[from+1 .. from+n]
Slice(rows, from, n) == SubSeq(rows, from + 1, from + n)

\* line 117; the rows of data are the dicts of asset ... expense, so these
\* lists see the new keys too
GetDifferenceData ==
    /\ pc = "get_difference_data"
    /\ IF Escapes(columns, data)
       THEN pc' = "raised" /\ UNCHANGED << data, data_vars >>
       ELSE LET d == get_difference_data(columns, data)
                la == Len(asset)
                ll == la + Len(liability)
                le == ll + Len(equity)
                li == le + Len(income)
            IN  /\ data' = d
                /\ asset' = Slice(d, 0, la)
                /\ liability' = Slice(d, la, Len(liability))
                /\ equity' = Slice(d, ll, Len(equity))
                /\ income' = Slice(d, le, Len(income))
                /\ expense' = Slice(d, li, Len(expense))
                /\ pc' = "return"
    /\ UNCHANGED << filters, period_list, float_precision, message, opening_balance,
                    columns, chart, report_summary, primitive_summary, result,
                    calc_vars >>

\* line 119
ReturnValue == << columns, data, message, chart, report_summary, primitive_summary >>

Return ==
    /\ pc = "return"
    /\ result' = ReturnValue
    /\ pc' = "done"
    /\ UNCHANGED << filters, period_list, data_vars, float_precision, message,
                    opening_balance, data, columns, chart, report_summary,
                    primitive_summary, calc_vars >>

Next ==
    \/ GetPeriodList
    \/ GetDataAsset
    \/ GetDataLiability
    \/ GetDataEquity
    \/ GetDataIncome
    \/ GetDataExpense
    \/ CheckOpeningBalance
    \/ BuildData
    \/ GetColumns
    \/ GetDifferenceColumns
    \/ GetChartData
    \/ GetReportSummary
    \/ GetDifferenceData
    \/ Return

Spec == Init /\ [][Next]_vars

---------------------------------------------------------------------------
(* Direct calls of calculate_percentage_difference *)

\* the arguments: small amounts, and amounts whose percentage has a third decimal
Amounts == (-MaxAmount..MaxAmount) \cup {32, -32, 96, 700}

InitCalc ==
    /\ pc = "calculate"
    /\ old_value \in Amounts /\ new_value \in Amounts
    /\ percentage = NoneV
    /\ filters = [show_difference |-> "", accumulated_values |-> FALSE,
                  periodicity |-> "Half-Yearly", period_start_date |-> <<>>]
    /\ period_list = <<>>
    /\ asset = <<>> /\ liability = <<>> /\ equity = <<>>
    /\ income = <<>> /\ expense = <<>>
    /\ float_precision = 0
    /\ message = NoneV /\ opening_balance = NoneV
    /\ data = <<>> /\ columns = <<>> /\ chart = NoChart
    /\ report_summary = <<>> /\ primitive_summary = 0
    /\ result = <<>>

\* lines 162-175
Calculate ==
    /\ pc = "calculate"
    /\ percentage' = calculate_percentage_difference(old_value, new_value)
    /\ pc' = "calculated"
    /\ UNCHANGED << filters, period_list, data_vars, float_precision, message,
                    opening_balance, out_vars, old_value, new_value >>

NextCalc == Calculate

SpecCalc == InitCalc /\ [][NextCalc]_vars

---------------------------------------------------------------------------
(* Direct calls of get_difference_data *)

HalfYears(n) == PeriodList("Half-Yearly", n)

\* column lists: what get_difference_columns returns for the report's
\* columns, and a list with fieldnames that do not split into two periods
GoodColumnLists ==
    { get_difference_columns(get_columns("Half-Yearly", HalfYears(n), acc), sd).out :
        n \in 1..MaxPeriods, acc \in BOOLEAN, sd \in {"", "Monthly", "Yearly"} }

OddColumnList ==
    LET k1 == HalfYears(1)[1].key
        k2 == <<"dec", "_", StrOf(FirstYear)>>
        col(f) == Column(f, <<"x">>, "Currency", "currency", 150)
    IN  << col(k1), col(k2),
           col(DIFF_WITH \o k1),
           col(DIFF_WITH \o k1 \o AND_SEP \o k2),
           col(<<>>),
           col(PERCENT_WITH \o k2),
           col(PERCENT_WITH \o k1 \o AND_SEP \o k2),
           col(DIFF_WITH),
           col(DIFF_WITH \o k1 \o AND_SEP \o k2 \o AND_SEP \o k1) >>

ColumnLists == GoodColumnLists \cup {OddColumnList}

\* what a row may hold under a period key
CellSamples == {NoneV, EmptyStr, Num(0), Num(2 * Unit), Num(-3 * Unit), Text(1), ListV}

SampleKeys == {HalfYears(1)[1].key, <<"dec", "_", StrOf(FirstYear)>>,
               <<"jun", "_", StrOf(FirstYear + 1)>>}

SampleKeysFirst == HalfYears(1)[1].key

NameKey == <<"account", "_", "name">>

\* rows: any subset of the sample keys, any sample value under each
RowSamples ==
    UNION { { [k \in S \cup {NameKey} |-> IF k = NameKey THEN Text(7) ELSE f[k]] :
                f \in [S -> CellSamples] } : S \in SUBSET SampleKeys }

SecondRows ==
    { EmptyRow,
      [k \in SampleKeys |-> Num(5 * Unit)],
      [k \in SampleKeys |-> Text(2)] }

InitDiff ==
    /\ pc = "get_difference_data"
    /\ columns \in ColumnLists
    /\ data \in { <<r1, r2>> : r1 \in RowSamples, r2 \in SecondRows }
    /\ old_value = 0 /\ new_value = 0 /\ percentage = NoneV
    /\ filters = [show_difference |-> "", accumulated_values |-> FALSE,
                  periodicity |-> "Half-Yearly", period_start_date |-> <<>>]
    /\ period_list = <<>>
    /\ asset = <<>> /\ liability = <<>> /\ equity = <<>>
    /\ income = <<>> /\ expense = <<>>
    /\ float_precision = 0
    /\ message = NoneV /\ opening_balance = NoneV
    /\ chart = NoChart
    /\ report_summary = <<>> /\ primitive_summary = 0
    /\ result = <<>>

\* lines 122-159
DifferenceData ==
    /\ pc = "get_difference_data"
    /\ IF Escapes(columns, data)
       THEN pc' = "raised" /\ UNCHANGED data
       ELSE pc' = "returned" /\ data' = get_difference_data(columns, data)
    /\ UNCHANGED << filters, period_list, data_vars, float_precision, message,
                    opening_balance, columns, chart, report_summary,
                    primitive_summary, result, calc_vars >>

NextDiff == DifferenceData

SpecDiff == InitDiff /\ [][NextDiff]_vars

---------------------------------------------------------------------------
(* Properties *)

\* the value a missing, None or empty key counts as; the number otherwise
CountsAs(row, key) ==
    LET x == Get(row, key, NoneV) IN IF x.t = "num" THEN x.v ELSE 0

\* the key holds a number, or is missing, None or empty
Countable(row, key) == Get(row, key, NoneV).t \in {"num", "none", "str"}

\* fieldname is diff_with_A_and_B for period names A and B
HasDiffForm(f, A, B) ==
    /\ f = DIFF_WITH \o A \o AND_SEP \o B
    /\ ~Contains(A, AND_SEP) /\ ~Contains(B, AND_SEP)

\* the ways to cut a fieldname into diff_with_A_and_B
DiffForms(f) ==
    { ab \in { <<SubSeq(f, 5, i - 1), SubSeq(f, i + 3, Len(f))>> : i \in 5..Len(f) } :
        HasDiffForm(f, ab[1], ab[2]) }

\* the fieldnames of the difference and percentage columns
DerivedNames(cols) ==
    { cols[j].fieldname : j \in { i \in 1..Len(cols) :
          Contains(cols[i].fieldname, DIFF_WITH) \/ Contains(cols[i].fieldname, PERCENT_WITH) } }

\* C1: calculate_percentage_difference returns 0 for (0, 0), 100 for (0, non-zero),
\* and for a non-zero old value the two-decimal number nearest to
\* (new - old) / old * 100.
C1_PercentageDifference ==
    pc = "calculated" =>
        /\ (old_value = 0 /\ new_value = 0) => percentage = Num(0)
        /\ (old_value = 0 /\ new_value # 0) => percentage = Num(100 * Unit)
        /\ old_value # 0 =>
              /\ percentage.t = "num"
              /\ percentage.v % (Unit \div 100) = 0
              /\ 2 * Abs(percentage.v * old_value - (new_value - old_value) * 100 * Unit)
                    <= Abs(old_value) * (Unit \div 100)

C1_Witness ==
    /\ pc = "calculated" /\ old_value = 3 /\ new_value = 4
    /\ percentage = Num(33330)

\* C2: get_difference_data sets row[diff_with_A_and_B] to row[B] - row[A] in
\* every row, a missing, None or empty key counting as 0, and leaves every key
\* that is no difference or percentage column as it was.
C2_DifferenceData ==
    [][(pc = "get_difference_data" /\ pc' = "returned") =>
          \A r \in 1..Len(data) :
              /\ \A j \in 1..Len(columns) :
                    \A ab \in DiffForms(columns[j].fieldname) :
                        (Countable(data[r], ab[1]) /\ Countable(data[r], ab[2])) =>
                            /\ columns[j].fieldname \in DOMAIN data'[r]
                            /\ data'[r][columns[j].fieldname]
                                 = Num(CountsAs(data[r], ab[2]) - CountsAs(data[r], ab[1]))
              /\ \A k \in DOMAIN data[r] :
                    k \notin DerivedNames(columns) =>
                        k \in DOMAIN data'[r] /\ data'[r][k] = data[r][k]]_vars

C2_Witness ==
    /\ pc = "returned"
    /\ \E j \in 1..Len(columns) : \E ab \in DiffForms(columns[j].fieldname) :
          /\ ab[1] \notin DOMAIN data[1]
          /\ Get(data[1], ab[2], NoneV) = Num(2 * Unit)
          /\ data[1][columns[j].fieldname] = Num(2 * Unit)
          /\ data[1][NameKey] = Text(7)

\* the period names the code reads for a difference or percentage column
PeriodNames(f) ==
    Split(Split(f, IF Contains(f, DIFF_WITH) THEN DIFF_WITH ELSE PERCENT_WITH)[2], AND_SEP)

\* a value float() refuses
Unconvertible(row, key) == Get(row, key, NoneV).t \in {"text", "list"}

\* the column cannot be computed for the row
CannotCompute(row, f) ==
    \/ Len(PeriodNames(f)) < 2
    \/ Unconvertible(row, PeriodNames(f)[1])
    \/ Unconvertible(row, PeriodNames(f)[2])

\* C9: when a row's value for one of the two periods of a difference or
\* percentage column is no number, or the fieldname does not split into two
\* period names, the column of that row is None, get_difference_data returns,
\* and every other row and column is computed.
C9_ErrorsAreContained ==
    [][pc = "get_difference_data" =>
          /\ pc' = "returned"
          /\ Len(data') = Len(data)
          /\ \A r \in 1..Len(data) : \A f \in DerivedNames(columns) :
                /\ f \in DOMAIN data'[r]
                /\ CannotCompute(data[r], f) => data'[r][f] = NoneV
                /\ ~CannotCompute(data[r], f) => data'[r][f].t = "num"]_vars

C9_Witness ==
    /\ pc = "returned" /\ columns = OddColumnList
    /\ data[1][DIFF_WITH \o SampleKeysFirst] = NoneV
    /\ data[1][OddColumnList[4].fieldname] = Num(2 * Unit)
    /\ data[1][OddColumnList[7].fieldname] = Num(100 * Unit)
    /\ data[2][OddColumnList[4].fieldname] = NoneV

\* the columns get_columns gave execute
InputColumns == get_columns(filters.periodicity, period_list, filters.accumulated_values)

\* the position of fieldname f in cols
IndexOf(cols, f) == CHOOSE i \in 1..Len(cols) : cols[i].fieldname = f

\* the steps of execute after get_difference_columns has returned
AfterDifferenceColumns ==
    pc \in {"get_chart_data", "get_report_summary", "get_difference_data", "return", "done"}

\* the period a Percent column at position j compares its period with: the
\* input column before it (Monthly), the same month of the year before (Yearly)
ComparedWith(j) ==
    LET c == columns[j - 2].fieldname
    IN  IF filters.show_difference = "Monthly"
        THEN InputColumns[IndexOf(InputColumns, c) - 1].fieldname
        ELSE <<c[1], "_", StrOf(IntOf[c[3]] - 1)>>

\* C3: in both modes, every Percent column that get_difference_columns emits
\* holds, in every row, calculate_percentage_difference of the row's values
\* for the two periods the column was generated for.
C3_PercentColumns ==
    pc = "done" =>
        \A j \in 1..Len(columns) :
            columns[j].fieldtype = "Percent" =>
                \A r \in 1..Len(data) :
                    /\ columns[j].fieldname \in DOMAIN data[r]
                    /\ data[r][columns[j].fieldname]
                         = calculate_percentage_difference(
                               CountsAs(data[r], ComparedWith(j)),
                               CountsAs(data[r], columns[j - 2].fieldname))

\* C4: execute returns the five-element tuple
\* (columns, data, message, chart, report_summary).
C4_FiveElements ==
    pc = "done" => result = << columns, data, message, chart, report_summary >>

\* C10: both periods of every difference column that get_difference_columns
\* emits are fieldnames of Currency columns of the input.
C10_PeriodsAreShown ==
    AfterDifferenceColumns =>
        \A j \in 1..Len(columns) : \A ab \in DiffForms(columns[j].fieldname) :
            \A x \in {ab[1], ab[2]} :
                \E i \in 1..Len(InputColumns) :
                    /\ InputColumns[i].fieldtype = "Currency"
                    /\ InputColumns[i].fieldname = x

\* the rows of the five categories, in the order execute collects them
Categories == << asset, liability, equity, income, expense >>
CategoryRows == asset \o liability \o equity \o income \o expense

\* the opening balance of a category: that of its last row, 0 when there is none
OpeningOf(rows) ==
    IF Len(rows) = 0 THEN 0
    ELSE LET p == IF float_precision = 0 THEN 2 ELSE float_precision
         IN  RoundTo(CountsAs(rows[Len(rows)], <<"opening", "_", "balance">>), Unit, p)

\* asset opening balance minus the other four
ExpectedOpening ==
    LET p == IF float_precision = 0 THEN 2 ELSE float_precision
    IN  RoundTo(OpeningOf(asset) - (OpeningOf(liability) + OpeningOf(equity)
                + OpeningOf(income) + OpeningOf(expense)), Unit, p)

AfterBuildData ==
    pc \in {"get_columns", "get_difference_columns", "get_chart_data",
            "get_report_summary", "get_difference_data", "return", "done", "raised"}

\* C5: data ends with the unclosed-years row, after the rows of the five
\* categories, exactly when the opening balance rounded to 2 decimals is not 0;
\* every period key and 'total' of that row hold the opening balance.
C5_UnclosedRow ==
    AfterBuildData =>
        /\ SubSeq(data, 1, Len(CategoryRows)) = CategoryRows
        /\ IF RoundTo(ExpectedOpening, Unit, 2) # 0
           THEN /\ Len(data) = Len(CategoryRows) + 1
                /\ data[Len(data)][NameKey] = Text(99)
                /\ \A i \in 1..Len(period_list) :
                      data[Len(data)][period_list[i].key] = Num(ExpectedOpening)
                /\ data[Len(data)][<<"total">>] = Num(ExpectedOpening)
           ELSE Len(data) = Len(CategoryRows)

C5_Witness ==
    /\ pc = "done"
    /\ Len(data) = Len(CategoryRows) + 1
    /\ liability # <<>> /\ equity # <<>>
    /\ data[Len(data)][<<"total">>] = Num(ExpectedOpening)
    /\ ExpectedOpening < 0

\* the non-empty categories, in order
NonEmpty == SelectSeq(<<1, 2, 3, 4, 5>>, LAMBDA c : Categories[c] # <<>>)

Considered ==
    IF filters.accumulated_values THEN {Len(period_list)} ELSE 1..Len(period_list)

RECURSIVE SumOver(_, _)
SumOver(row, S) ==
    IF S = {} THEN 0
    ELSE LET i == CHOOSE x \in S : TRUE
         IN  row[period_list[i].key].v + SumOver(row, S \ {i})

SummaryLabels == <<"Total Asset", "Total Liability", "Total Equity", "Total Income",
                   "Total Expense">>

OwedMonthly(cols, i) ==
    IF /\ cols[i].fieldtype = "Currency"
       /\ \E h \in 1..(i - 1) : cols[h].fieldtype = "Currency"
    THEN << [fieldname |-> DIFF_WITH \o cols[i - 1].fieldname \o AND_SEP \o cols[i].fieldname,
             fieldtype |-> "Currency"],
            [fieldname |-> PERCENT_WITH \o cols[i - 1].fieldname \o AND_SEP \o cols[i].fieldname,
             fieldtype |-> "Percent"] >>
    ELSE <<>>

\* the input columns, each followed by what the Monthly mode owes it
RECURSIVE ExpectedMonthly(_, _)
ExpectedMonthly(cols, i) ==
    IF i > Len(cols) THEN <<>>
    ELSE << [fieldname |-> cols[i].fieldname, fieldtype |-> cols[i].fieldtype] >>
         \o OwedMonthly(cols, i) \o ExpectedMonthly(cols, i + 1)

\* ins is a subsequence of outs, from position i of ins and o of outs on
RECURSIVE IsSubsequence(_, _, _, _)
IsSubsequence(ins, outs, i, o) ==
    IF i > Len(ins) THEN TRUE
    ELSE IF o > Len(outs) THEN FALSE
    ELSE IF outs[o] = ins[i] THEN IsSubsequence(ins, outs, i + 1, o + 1)
    ELSE IsSubsequence(ins, outs, i, o + 1)

\* C8: get_difference_columns keeps the input columns in their order; in
\* Monthly mode every Currency column but the first is followed by exactly its
\* diff_with_P_and_C Currency column and its percent_with_P_and_C Percent
\* column, P the column before it in the input; when show_difference is
\* neither Monthly nor Yearly the output is the input.
C8_DifferenceColumns ==
    [][(pc = "get_difference_columns" /\ pc' = "get_chart_data") =>
          /\ IsSubsequence(columns, columns', 1, 1)
          /\ filters.show_difference = "Monthly" =>
                [j \in 1..Len(columns') |->
                    [fieldname |-> columns'[j].fieldname, fieldtype |-> columns'[j].fieldtype]]
                  = ExpectedMonthly(columns, 1)
          /\ filters.show_difference \notin {"Monthly", "Yearly"} =>
                columns' = columns]_vars

C8_Witness ==
    /\ pc = "get_chart_data"
    /\ filters.show_difference = "Monthly"
    /\ Len(period_list) = 3
    /\ Len(columns) = Len(InputColumns) + 6
    /\ columns[5].fieldname = DIFF_WITH \o period_list[1].key \o AND_SEP \o period_list[2].key
    /\ columns[6].fieldtype = "Percent"

====
